---- MODULE Spec2Model ----
(***************************************************************************)
(* Model of src/core/link.go: the link registry (type links) and the       *)
(* per-connection handshake handler (link.handler).  One process per link; *)
(* the registry map and its mutex are the only shared state.               *)
(***************************************************************************)
EXTENDS Integers, Sequences, FiniteSets, TLC

\* ---------------------------------------------------------------- bounds
NumLinks == 2          \* number of connections (links) that may be created
KeyLen == 1            \* bytes of a keyArray in the model (ed25519.PublicKeySize in the code)

Links == 1..NumLinks
NoLink == 0            \* "no goroutine" / "no link" marker

\* ------------------------------------------------- hex and key conversions
HexDigits == <<"0","1","2","3","4","5","6","7","8","9","a","b","c","d","e","f">>
UpperDigits == <<"0","1","2","3","4","5","6","7","8","9","A","B","C","D","E","F">>

\* encoding/hex fromHexChar: value of one hex character, -1 when invalid
FromHexChar(c) ==
    IF \E i \in 1..16 : HexDigits[i] = c
    THEN (CHOOSE i \in 1..16 : HexDigits[i] = c) - 1
    ELSE IF \E i \in 1..16 : UpperDigits[i] = c
         THEN (CHOOSE i \in 1..16 : UpperDigits[i] = c) - 1
         ELSE -1

\* hex.DecodeString: <<ok, bytes>>; odd length or a bad character is an error
DecodeString(s) ==
    IF Len(s) % 2 # 0 \/ \E i \in 1..Len(s) : FromHexChar(s[i]) = -1
    THEN [ok |-> FALSE, bytes |-> <<>>]
    ELSE [ok |-> TRUE,
          bytes |-> [i \in 1..(Len(s) \div 2) |->
                       16 * FromHexChar(s[2*i - 1]) + FromHexChar(s[2*i])]]

\* hex.EncodeToString: two lower-case digits per byte
EncodeToString(b) ==
    [i \in 1..(2 * Len(b)) |->
        IF i % 2 = 1 THEN HexDigits[(b[(i + 1) \div 2] \div 16) + 1]
                     ELSE HexDigits[(b[i \div 2] % 16) + 1]]

\* var k keyArray; copy(k[:], src): zero padded, truncated to the array size
CopyKey(src) == [i \in 1..KeyLen |-> IF i <= Len(src) THEN src[i] ELSE 0]

ZeroKey == CopyKey(<<>>)
KeyA == CopyKey(<<170>>)
KeyB == CopyKey(<<187>>)
RemoteKeys == {KeyA, KeyB}

\* a nil map, as opposed to an allocated map (make) that may be empty
NilMap == [isNil |-> TRUE, keys |-> {}]
MakeMap(ks) == [isNil |-> FALSE, keys |-> ks]

\* links.call, lines 84-93: the pinned set built from the "ed25519" query values
RECURSIVE PinnedKeys(_)
PinnedKeys(pubkeys) ==
    IF pubkeys = <<>> THEN {}
    ELSE LET d == DecodeString(Head(pubkeys))
         IN  (IF d.ok THEN {CopyKey(d.bytes)} ELSE {}) \cup PinnedKeys(Tail(pubkeys))

pinnedEd25519Keys(pubkeys) ==
    IF Len(pubkeys) > 0 THEN MakeMap(PinnedKeys(pubkeys)) ELSE NilMap

\* the ed25519 query values a caller may pass: none, a well-formed key, bad hex
Queries == { <<>>, <<EncodeToString(KeyA)>>, << <<"z","z">> >> }
PinnedChoices == { pinnedEd25519Keys(q) : q \in Queries }

\* config AllowedPublicKeys: a list of hex strings
AllowedChoices == { <<>>, <<EncodeToString(KeyA)>> }

LinkTypes == {"tcp"}
LocalLabels == {"l0"}
RemoteLabels == {"r0"}

\* --------------------------------------------------- handshake metadata
\* What the remote may put on the wire: undecodable bytes, or a metadata frame
\* with a version that is or is not compatible and the remote's key.
\* (read: io.ReadFull filled the buffer; NoBytes is the buffer before the read.)
NoBytes == [read |-> FALSE, wellFormed |-> FALSE, compatible |-> FALSE, key |-> ZeroKey]
Garbage == [read |-> TRUE, wellFormed |-> FALSE, compatible |-> FALSE, key |-> ZeroKey]
Frames == {Garbage}
          \cup {[read |-> TRUE, wellFormed |-> TRUE, compatible |-> FALSE, key |-> KeyA]}
          \cup {[read |-> TRUE, wellFormed |-> TRUE, compatible |-> TRUE, key |-> k] :
                   k \in RemoteKeys}

\* version_metadata.decode / version_metadata.check
decode(bytes) == bytes.wellFormed
check(meta) == meta.compatible

\* ------------------------------------------------------------- errors
NilErr == "nil"
ErrSendTimeout == "timeout on metadata send"
ErrSend == "metadata send failed"
ErrRecvTimeout == "timeout on metadata recv"
ErrRecv == "metadata recv failed"
ErrDecode == "failed to decode metadata"
ErrVersion == "remote node is incompatible version"
ErrPinned == "host sent ed25519 key that does not match pinned keys"
ErrTunnel == "HandleConn error"

NilChan == 0           \* a nil chan struct{}; otherwise a channel is named by its link

VARIABLES
    links,       \* links.links: map[linkInfo]*link, a function on the keys present
    mutex,       \* links.mutex: the link holding it, or NoLink
    allowed,     \* core.config.GetCurrent().AllowedPublicKeys
    intf,        \* the link structs: options, info, incoming, force, closed
    pc,          \* where each link's handler goroutine is
    metaBytes,   \* what each handler read from its connection
    ret,         \* what each handler returned: [ch, err]
    connCloses,  \* number of conn.Close() calls per link
    handleCalls, \* number of HandleConn invocations per link
    fired,       \* number of close(intf.closed) per link
    inserts,     \* number of times each link was stored into links.links
    removes,     \* number of entries each link's deferred delete removed from links.links
    raced,       \* history: pairs of links that were at line 222 together, same LinkKey
    oldIntf,     \* the handler's local oldIntf: the link found by the lookup, or NoLink
    handleErr    \* the handler's local err once HandleConn has returned, "none" before

\* the registry's own state and the calls made on the transport adapter
VARIABLES
    stopped,     \* links.stopped: "open" or "closed"
    panicked,    \* the process died of a run-time panic
    stopCalls,   \* number of calls of links.stop
    tcpStops,    \* number of calls of links.tcp.stop
    stopRet,     \* what the last links.stop returned, "none" before the first
    tcpCalls,    \* the calls of links.tcp.call, in order: [addr, options, sintf]
    callCount,   \* number of calls of links.call
    lastUri,     \* the URI of the last links.call
    callRet      \* what the last links.call returned, "none" before the first

apiVars == <<stopped, panicked, stopCalls, tcpStops, stopRet, tcpCalls,
             callCount, lastUri, callRet>>

\* the metric of one handshake (handler lines 150-151, 184-186, 247)
VARIABLES
    mpc,          \* where the metric computation is
    optMetric,    \* intf.options.metric
    remoteMetric, \* the metric in the metadata the remote sent
    metric,       \* the handler's local metric (uint64)
    handedMetric  \* the metric passed to HandleConn

metricVars == <<mpc, optMetric, remoteMetric, metric, handedMetric>>

vars == <<links, mutex, allowed, intf, pc, metaBytes, ret, connCloses,
          handleCalls, fired, inserts, removes, raced, oldIntf, handleErr,
          apiVars, metricVars>>

NoRet == [ch |-> NilChan, err |-> "none"]

\* a url.URL as links.call reads it: scheme, host, path segments, whether userinfo is
\* present, and the values of the "ed25519" and "metric" query parameters
NoUri == [Scheme |-> "", Host |-> "", Path |-> <<>>, User |-> FALSE,
          ed25519 |-> <<>>, metric |-> <<>>]

\* links.init: an empty map, an open stopped channel; no call made yet
InitApi ==
    /\ stopped = "open"
    /\ panicked = FALSE
    /\ stopCalls = 0
    /\ tcpStops = 0
    /\ stopRet = "none"
    /\ tcpCalls = <<>>
    /\ callCount = 0
    /\ lastUri = NoUri
    /\ callRet = "none"

\* no metric computation under way
InitMetricIdle ==
    /\ mpc = "idle"
    /\ optMetric = 0
    /\ remoteMetric = 0
    /\ metric = 0
    /\ handedMetric = 0

InitLinks ==
    /\ links = <<>>
    /\ mutex = NoLink
    /\ allowed \in AllowedChoices
    /\ intf = [l \in Links |->
                 [pinned |-> NilMap,
                  info |-> [key |-> ZeroKey, linkType |-> "", local |-> "", remote |-> ""],
                  incoming |-> FALSE, force |-> FALSE, closed |-> "nil"]]
    /\ pc = [l \in Links |-> "none"]
    /\ metaBytes = [l \in Links |-> NoBytes]
    /\ ret = [l \in Links |-> NoRet]
    /\ connCloses = [l \in Links |-> 0]
    /\ handleCalls = [l \in Links |-> 0]
    /\ fired = [l \in Links |-> 0]
    /\ inserts = [l \in Links |-> 0]
    /\ removes = [l \in Links |-> 0]
    /\ raced = {}
    /\ oldIntf = [l \in Links |-> NoLink]
    /\ handleErr = [l \in Links |-> "none"]

Init == InitLinks /\ InitApi /\ InitMetricIdle

\* ------------------------------------------------------------ links.create
\* lines 119-135: a link around a fresh connection; key and closed are unset
create(l, linkType, local, remote, incoming, force, options) ==
    /\ pc[l] = "none"
    /\ intf' = [intf EXCEPT ![l] =
                  [pinned |-> options,
                   info |-> [key |-> ZeroKey, linkType |-> linkType,
                             local |-> local, remote |-> remote],
                   incoming |-> incoming, force |-> force, closed |-> "nil"]]
    /\ pc' = [pc EXCEPT ![l] = "created"]
    /\ UNCHANGED <<links, mutex, allowed, metaBytes, ret, connCloses,
                   handleCalls, fired, inserts, removes, raced, oldIntf, handleErr,
                   apiVars, metricVars>>

Create(l) ==
    \E lt \in LinkTypes, lo \in LocalLabels, re \in RemoteLabels,
       inc \in BOOLEAN, fo \in BOOLEAN, op \in PinnedChoices :
        create(l, lt, lo, re, inc, fo, op)

\* ------------------------------------------------------------ link.handler
\* a return statement: the results are fixed, the deferred calls are still to run
Return(l, ch, err, next) ==
    /\ ret' = [ret EXCEPT ![l] = [ch |-> ch, err |-> err]]
    /\ pc' = [pc EXCEPT ![l] = next]

\* lines 148-166 as they would be if the handler went on after a send timeout
SendMetaIgnoresTimeout(l) ==
    /\ pc[l] = "created"
    /\ \E outcome \in {"ok", "timeout", "error"} :
          CASE outcome = "ok" -> pc' = [pc EXCEPT ![l] = "sent"] /\ UNCHANGED ret
            [] outcome = "timeout" -> Return(l, NilChan, ErrSendTimeout, "sent")
            [] outcome = "error" -> Return(l, NilChan, ErrSend, "deferClose")
    /\ UNCHANGED <<links, mutex, allowed, intf, metaBytes, connCloses,
                   handleCalls, fired, inserts, removes, raced, oldIntf, handleErr,
                   apiVars, metricVars>>

\* lines 148-166: send the local metadata under a 30 s timeout
SendMeta(l) ==
    /\ pc[l] = "created"
    /\ \E outcome \in {"ok", "timeout", "error"} :
          CASE outcome = "ok" -> pc' = [pc EXCEPT ![l] = "sent"] /\ UNCHANGED ret
            [] outcome = "timeout" -> Return(l, NilChan, ErrSendTimeout, "deferClose")
            [] outcome = "error" -> Return(l, NilChan, ErrSend, "deferClose")
    /\ UNCHANGED <<links, mutex, allowed, intf, metaBytes, connCloses,
                   handleCalls, fired, inserts, removes, raced, oldIntf, handleErr,
                   apiVars, metricVars>>

\* lines 167-178: read the remote metadata under a 30 s timeout
RecvMeta(l) ==
    /\ pc[l] = "sent"
    /\ \E outcome \in {"ok", "timeout", "error"} :
          CASE outcome = "ok" ->
                    /\ \E f \in Frames : metaBytes' = [metaBytes EXCEPT ![l] = f]
                    /\ pc' = [pc EXCEPT ![l] = "received"]
                    /\ UNCHANGED ret
            [] outcome = "timeout" ->
                    Return(l, NilChan, ErrRecvTimeout, "deferClose") /\ UNCHANGED metaBytes
            [] outcome = "error" ->
                    Return(l, NilChan, ErrRecv, "deferClose") /\ UNCHANGED metaBytes
    /\ UNCHANGED <<links, mutex, allowed, intf, connCloses,
                   handleCalls, fired, inserts, removes, raced, oldIntf, handleErr,
                   apiVars, metricVars>>

\* the pinned-key check as it would be if it let every key through
PinnedOkAlways(pinned, key) == TRUE

\* lines 197-204: the pinned-key check passes
PinnedOk(pinned, key) == pinned.isNil \/ CopyKey(key) \in pinned.keys

\* lines 206-213: isallowed
IsAllowed(allow, key) ==
    Len(allow) = 0 \/ \E i \in 1..Len(allow) : allow[i] = EncodeToString(key)

\* the allow-list rejection as it would be without the force flag
ForbiddenIgnoringForce(l, key) == intf[l].incoming /\ ~IsAllowed(allowed, key)

\* line 214: the allow-list rejects this link
Forbidden(l, key) == intf[l].incoming /\ ~intf[l].force /\ ~IsAllowed(allowed, key)

\* lines 179-221 as they would be with the allow-list consulted before the pinned keys
ValidateAllowFirst(l) ==
    /\ pc[l] = "received"
    /\ LET meta == metaBytes[l] IN
         IF ~decode(meta) THEN
            /\ Return(l, NilChan, ErrDecode, "deferClose")
            /\ UNCHANGED <<intf, connCloses>>
         ELSE IF ~check(meta) THEN
            /\ Return(l, NilChan, ErrVersion, "deferClose")
            /\ UNCHANGED <<intf, connCloses>>
         ELSE IF Forbidden(l, meta.key) THEN
            /\ connCloses' = [connCloses EXCEPT ![l] = @ + 1]
            /\ Return(l, NilChan, NilErr, "deferClose")
            /\ UNCHANGED intf
         ELSE IF ~PinnedOk(intf[l].pinned, meta.key) THEN
            /\ Return(l, NilChan, ErrPinned, "deferClose")
            /\ UNCHANGED <<intf, connCloses>>
         ELSE
            /\ intf' = [intf EXCEPT ![l].info.key = CopyKey(meta.key)]
            /\ pc' = [pc EXCEPT ![l] = "lock"]
            /\ UNCHANGED <<ret, connCloses>>
    /\ raced' = raced \cup
                  { {l, m} : m \in { x \in Links \ {l} :
                                       /\ pc'[l] = "lock"
                                       /\ pc[x] = "lock"
                                       /\ intf[x].info = intf'[l].info } }
    /\ UNCHANGED <<links, mutex, allowed, metaBytes,
                   handleCalls, fired, inserts, removes, oldIntf, handleErr,
                   apiVars, metricVars>>

\* lines 179-221: decode, version check, pinned keys, allow-list, then info.key
Validate(l) ==
    /\ pc[l] = "received"
    /\ LET meta == metaBytes[l] IN
         IF ~decode(meta) THEN
            /\ Return(l, NilChan, ErrDecode, "deferClose")
            /\ UNCHANGED <<intf, connCloses>>
         ELSE IF ~check(meta) THEN
            /\ Return(l, NilChan, ErrVersion, "deferClose")
            /\ UNCHANGED <<intf, connCloses>>
         ELSE IF ~PinnedOk(intf[l].pinned, meta.key) THEN
            /\ Return(l, NilChan, ErrPinned, "deferClose")
            /\ UNCHANGED <<intf, connCloses>>
         ELSE IF Forbidden(l, meta.key) THEN
            \* intf.close() and return nil, nil
            /\ connCloses' = [connCloses EXCEPT ![l] = @ + 1]
            /\ Return(l, NilChan, NilErr, "deferClose")
            /\ UNCHANGED intf
         ELSE
            /\ intf' = [intf EXCEPT ![l].info.key = CopyKey(meta.key)]
            /\ pc' = [pc EXCEPT ![l] = "lock"]
            /\ UNCHANGED <<ret, connCloses>>
    /\ raced' = raced \cup
                  { {l, m} : m \in { x \in Links \ {l} :
                                       /\ pc'[l] = "lock"
                                       /\ pc[x] = "lock"
                                       /\ intf[x].info = intf'[l].info } }
    /\ UNCHANGED <<links, mutex, allowed, metaBytes,
                   handleCalls, fired, inserts, removes, oldIntf, handleErr,
                   apiVars, metricVars>>

\* Lock as it would be if the mutex did not exclude a second holder
LockNoWait(l) ==
    /\ pc[l] = "lock"
    /\ mutex' = l
    /\ pc' = [pc EXCEPT ![l] = "lookup"]
    /\ UNCHANGED <<links, allowed, intf, metaBytes, ret, connCloses,
                   handleCalls, fired, inserts, removes, raced, oldIntf, handleErr,
                   apiVars, metricVars>>

\* line 222: intf.links.mutex.Lock(), which waits until the mutex is free
Lock(l) ==
    /\ pc[l] = "lock"
    /\ mutex = NoLink
    /\ mutex' = l
    /\ pc' = [pc EXCEPT ![l] = "lookup"]
    /\ UNCHANGED <<links, allowed, intf, metaBytes, ret, connCloses,
                   handleCalls, fired, inserts, removes, raced, oldIntf, handleErr,
                   apiVars, metricVars>>

\* the lookup as it would be if it never found the existing link
IsInNever(m, k) == FALSE

\* map operations on links.links
IsIn(m, k) == k \in DOMAIN m
Store(m, k, v) == [x \in DOMAIN m \cup {k} |-> IF x = k THEN v ELSE m[x]]
Delete(m, k) == [x \in DOMAIN m \ {k} |-> m[x]]

\* line 223: oldIntf, isIn := intf.links.links[intf.info]
Lookup(l) ==
    /\ pc[l] = "lookup"
    /\ IF IsIn(links, intf[l].info)
       THEN /\ oldIntf' = [oldIntf EXCEPT ![l] = links[intf[l].info]]
            /\ pc' = [pc EXCEPT ![l] = "duplicate"]
       ELSE /\ pc' = [pc EXCEPT ![l] = "insert"]
            /\ UNCHANGED oldIntf
    /\ UNCHANGED <<links, mutex, allowed, intf, metaBytes, ret, connCloses,
                   handleCalls, fired, inserts, removes, raced, handleErr,
                   apiVars, metricVars>>

\* the value of a link's closed field: nil until make(chan struct{})
ClosedChan(x) == IF intf[x].closed = "nil" THEN NilChan ELSE x

\* the duplicate return as it would be if it returned this link's own closed field
DupReturnOwnSignal(l) ==
    /\ pc[l] = "duplicate"
    /\ mutex' = NoLink
    /\ Return(l, ClosedChan(l), NilErr, "deferClose")
    /\ UNCHANGED <<links, allowed, intf, metaBytes, connCloses,
                   handleCalls, fired, inserts, removes, raced, oldIntf, handleErr,
                   apiVars, metricVars>>

\* the duplicate return as it would be if the deregistration were deferred before the lookup
DupReturnDeregisters(l) ==
    /\ pc[l] = "duplicate"
    /\ mutex' = NoLink
    /\ Return(l, ClosedChan(oldIntf[l]), NilErr, "deferLock")
    /\ UNCHANGED <<links, allowed, intf, metaBytes, connCloses,
                   handleCalls, fired, inserts, removes, raced, oldIntf, handleErr,
                   apiVars, metricVars>>

\* lines 224-228: unlock and return oldIntf.closed, nil
DupReturn(l) ==
    /\ pc[l] = "duplicate"
    /\ mutex' = NoLink
    /\ Return(l, ClosedChan(oldIntf[l]), NilErr, "deferClose")
    /\ UNCHANGED <<links, allowed, intf, metaBytes, connCloses,
                   handleCalls, fired, inserts, removes, raced, oldIntf, handleErr,
                   apiVars, metricVars>>

\* lines 230-238 as they would be without intf.closed = make(chan struct{})
InsertNoSignal(l) ==
    /\ pc[l] = "insert"
    /\ links' = Store(links, intf[l].info, l)
    /\ inserts' = [inserts EXCEPT ![l] = @ + 1]
    /\ pc' = [pc EXCEPT ![l] = "unlock"]
    /\ UNCHANGED <<mutex, allowed, intf, metaBytes, ret, connCloses,
                   handleCalls, fired, removes, raced, oldIntf, handleErr,
                   apiVars, metricVars>>

\* lines 230-238: make the closed channel, store the link, defer the deregistration
Insert(l) ==
    /\ pc[l] = "insert"
    /\ intf' = [intf EXCEPT ![l].closed = "open"]
    /\ links' = Store(links, intf[l].info, l)
    /\ inserts' = [inserts EXCEPT ![l] = @ + 1]
    /\ pc' = [pc EXCEPT ![l] = "unlock"]
    /\ UNCHANGED <<mutex, allowed, metaBytes, ret, connCloses,
                   handleCalls, fired, removes, raced, oldIntf, handleErr,
                   apiVars, metricVars>>

\* line 240 as it would be if the unlock were forgotten on the insert branch
UnlockSkipped(l) ==
    /\ pc[l] = "unlock"
    /\ pc' = [pc EXCEPT ![l] = "registered"]
    /\ UNCHANGED <<links, mutex, allowed, intf, metaBytes, ret, connCloses,
                   handleCalls, fired, inserts, removes, raced, oldIntf, handleErr,
                   apiVars, metricVars>>

\* line 240: intf.links.mutex.Unlock()
Unlock(l) ==
    /\ pc[l] = "unlock"
    /\ mutex' = NoLink
    /\ pc' = [pc EXCEPT ![l] = "registered"]
    /\ UNCHANGED <<links, allowed, intf, metaBytes, ret, connCloses,
                   handleCalls, fired, inserts, removes, raced, oldIntf, handleErr,
                   apiVars, metricVars>>

\* line 247: the call of PacketConn.HandleConn
HandleConn(l) ==
    /\ pc[l] = "registered"
    /\ handleCalls' = [handleCalls EXCEPT ![l] = @ + 1]
    /\ pc' = [pc EXCEPT ![l] = "handling"]
    /\ UNCHANGED <<links, mutex, allowed, intf, metaBytes, ret, connCloses,
                   fired, inserts, removes, raced, oldIntf, handleErr,
                   apiVars, metricVars>>

\* the return from HandleConn as it would be without the deferred deregistration
HandleConnReturnNoDefer(l) ==
    /\ pc[l] = "handling"
    /\ \E err \in {NilErr, ErrTunnel} :
          /\ handleErr' = [handleErr EXCEPT ![l] = err]
          /\ Return(l, NilChan, err, "deferClose")
    /\ UNCHANGED <<links, mutex, allowed, intf, metaBytes, connCloses,
                   handleCalls, fired, inserts, removes, raced, oldIntf,
                   apiVars, metricVars>>

\* lines 247-256 as they would be if the handler returned nil whatever HandleConn returned
HandleConnReturnSwallowsErr(l) ==
    /\ pc[l] = "handling"
    /\ \E err \in {NilErr, ErrTunnel} :
          /\ handleErr' = [handleErr EXCEPT ![l] = err]
          /\ Return(l, NilChan, NilErr, "deferLock")
    /\ UNCHANGED <<links, mutex, allowed, intf, metaBytes, connCloses,
                   handleCalls, fired, inserts, removes, raced, oldIntf,
                   apiVars, metricVars>>

\* lines 247-256: HandleConn returns, with or without an error; return nil, err
HandleConnReturn(l) ==
    /\ pc[l] = "handling"
    /\ \E err \in {NilErr, ErrTunnel} :
          /\ handleErr' = [handleErr EXCEPT ![l] = err]
          /\ Return(l, NilChan, err, "deferLock")
    /\ UNCHANGED <<links, mutex, allowed, intf, metaBytes, connCloses,
                   handleCalls, fired, inserts, removes, raced, oldIntf,
                   apiVars, metricVars>>

\* line 233: the deferred function takes the lock
DeferLock(l) ==
    /\ pc[l] = "deferLock"
    /\ mutex = NoLink
    /\ mutex' = l
    /\ pc' = [pc EXCEPT ![l] = "deferDelete"]
    /\ UNCHANGED <<links, allowed, intf, metaBytes, ret, connCloses,
                   handleCalls, fired, inserts, removes, raced, oldIntf, handleErr,
                   apiVars, metricVars>>

\* lines 234-235 as they would be if the entry were left in the map
DeferDeleteKeeps(l) ==
    /\ pc[l] = "deferDelete"
    /\ mutex' = NoLink
    /\ pc' = [pc EXCEPT ![l] = "deferSignal"]
    /\ UNCHANGED <<links, allowed, intf, metaBytes, ret, connCloses,
                   handleCalls, fired, inserts, removes, raced, oldIntf, handleErr,
                   apiVars, metricVars>>

\* lines 234-235: delete(intf.links.links, intf.info), then unlock
DeferDelete(l) ==
    /\ pc[l] = "deferDelete"
    /\ links' = Delete(links, intf[l].info)
    /\ removes' = [removes EXCEPT ![l] = IF IsIn(links, intf[l].info) THEN @ + 1 ELSE @]
    /\ mutex' = NoLink
    /\ pc' = [pc EXCEPT ![l] = "deferSignal"]
    /\ UNCHANGED <<allowed, intf, metaBytes, ret, connCloses,
                   handleCalls, fired, inserts, raced, oldIntf, handleErr,
                   apiVars, metricVars>>

\* line 236 as it would be if the deferred function never closed the channel
DeferSignalSkipped(l) ==
    /\ pc[l] = "deferSignal"
    /\ pc' = [pc EXCEPT ![l] = "deferClose"]
    /\ UNCHANGED <<links, mutex, allowed, intf, metaBytes, ret, connCloses,
                   handleCalls, fired, inserts, removes, raced, oldIntf, handleErr,
                   apiVars, metricVars>>

\* line 236: close(intf.closed)
DeferSignal(l) ==
    /\ pc[l] = "deferSignal"
    /\ intf' = [intf EXCEPT ![l].closed = "closed"]
    /\ fired' = [fired EXCEPT ![l] = @ + 1]
    /\ pc' = [pc EXCEPT ![l] = "deferClose"]
    /\ UNCHANGED <<links, mutex, allowed, metaBytes, ret, connCloses,
                   handleCalls, inserts, removes, raced, oldIntf, handleErr,
                   apiVars, metricVars>>

\* the end of the handler as it would be without defer intf.conn.Close()
DeferCloseSkipped(l) ==
    /\ pc[l] = "deferClose"
    /\ pc' = [pc EXCEPT ![l] = "done"]
    /\ UNCHANGED <<links, mutex, allowed, intf, metaBytes, ret, connCloses,
                   handleCalls, fired, inserts, removes, raced, oldIntf, handleErr,
                   apiVars, metricVars>>

\* line 147: defer intf.conn.Close(), the last deferred call to run
DeferClose(l) ==
    /\ pc[l] = "deferClose"
    /\ connCloses' = [connCloses EXCEPT ![l] = @ + 1]
    /\ pc' = [pc EXCEPT ![l] = "done"]
    /\ UNCHANGED <<links, mutex, allowed, intf, metaBytes, ret,
                   handleCalls, fired, inserts, removes, raced, oldIntf, handleErr,
                   apiVars, metricVars>>

handler(l) ==
    \/ SendMeta(l)
    \/ RecvMeta(l)
    \/ Validate(l)
    \/ Lock(l)
    \/ Lookup(l)
    \/ DupReturn(l)
    \/ Insert(l)
    \/ Unlock(l)
    \/ HandleConn(l)
    \/ HandleConnReturn(l)
    \/ DeferLock(l)
    \/ DeferDelete(l)
    \/ DeferSignal(l)
    \/ DeferClose(l)

Next == \E l \in Links : Create(l) \/ handler(l)

Spec == Init /\ [][Next]_vars

\* The registry under plain outgoing dials only: every link is created outgoing,
\* not forced and without pinned keys, as links.call does for a URI with no
\* ed25519 query value.  Its behaviours are behaviours of Spec.
Dial(l) ==
    \E lt \in LinkTypes, lo \in LocalLabels, re \in RemoteLabels :
        create(l, lt, lo, re, FALSE, FALSE, pinnedEd25519Keys(<<>>))

NextRace == \E l \in Links : Dial(l) \/ handler(l)

SpecRace == Init /\ [][NextRace]_vars

\* The steps of a handler that do not wait for the network or the tunnel engine: a
\* runnable goroutine is eventually scheduled, and a goroutine waiting in Lock gets the
\* mutex once it stays free.  Sending, receiving and HandleConn may block for ever.
Fairness ==
    \A l \in Links :
        /\ WF_vars(Lock(l)) /\ WF_vars(Lookup(l)) /\ WF_vars(DupReturn(l))
        /\ WF_vars(Insert(l)) /\ WF_vars(Unlock(l))
        /\ WF_vars(DeferLock(l)) /\ WF_vars(DeferDelete(l))
        /\ WF_vars(DeferSignal(l)) /\ WF_vars(DeferClose(l))

SpecRaceFair == SpecRace /\ Fairness

MaxUint8 == 255
Uint8 == 0..MaxUint8

linkVars == <<links, mutex, allowed, intf, pc, metaBytes, ret, connCloses,
              handleCalls, fired, inserts, removes, raced, oldIntf, handleErr>>

\* ------------------------------------------------------ links.call, links.stop
MaxCalls == 2          \* calls of links.call explored
MaxStops == 2          \* calls of links.stop explored

ErrUnknownScheme == "unknown call scheme"
ErrTcpStop == "tcp stop error"

\* strconv.ParseUint(s, 10, 8): 0 on a syntax error, 255 when out of range
RECURSIVE DecimalValue(_)
DecimalValue(s) ==
    IF s = <<>> THEN 0 ELSE 10 * DecimalValue(SubSeq(s, 1, Len(s) - 1)) + FromHexChar(s[Len(s)])

IsDecimal(s) ==
    Len(s) > 0 /\ \A i \in 1..Len(s) : \E d \in 1..10 : HexDigits[d] = s[i]

ParseUint8(s) ==
    IF ~IsDecimal(s) THEN 0
    ELSE IF DecimalValue(s) > MaxUint8 THEN MaxUint8 ELSE DecimalValue(s)

\* lines 94-97: the metric option, set only when there is exactly one metric value
MetricOption(ms) == IF Len(ms) = 1 THEN ParseUint8(ms[1]) % (MaxUint8 + 1) ELSE 0

\* line 108: strings.Split(strings.Trim(u.Path, "/"), "/")[0]
PathToken0(path) == IF Len(path) = 0 THEN "" ELSE path[1]

\* the switch of lines 98-115 as it would be without its default branch
KnownSchemeAny(scheme) == TRUE

\* lines 98-113: the schemes the switch has a case for
KnownScheme(scheme) == scheme \in {"tcp", "socks", "tls"}

\* lines 83-112: the tcpOptions handed to tcp.call
TcpOptions(u) ==
    [pinnedEd25519Keys |-> pinnedEd25519Keys(u.ed25519),
     metric |-> MetricOption(u.metric),
     socksProxyAddr |-> IF u.Scheme = "socks" THEN u.Host ELSE "",
     socksProxyAuth |-> u.Scheme = "socks" /\ u.User,
     upgrade |-> u.Scheme = "tls"]

\* lines 100, 109, 112: the address handed to tcp.call
DialAddr(u) == IF u.Scheme = "socks" THEN PathToken0(u.Path) ELSE u.Host

\* lines 78-117: links.call
call(u, sintf) ==
    /\ ~panicked
    /\ callCount < MaxCalls
    /\ callCount' = callCount + 1
    /\ lastUri' = u
    /\ IF KnownScheme(u.Scheme)
       THEN /\ tcpCalls' = Append(tcpCalls,
                      [addr |-> DialAddr(u), options |-> TcpOptions(u), sintf |-> sintf])
            /\ callRet' = NilErr
       ELSE /\ callRet' = ErrUnknownScheme
            /\ UNCHANGED tcpCalls
    /\ UNCHANGED <<stopped, panicked, stopCalls, tcpStops, stopRet, linkVars, metricVars>>

\* lines 137-143: links.stop; closing a closed channel is a run-time panic
stop ==
    /\ ~panicked
    /\ stopCalls < MaxStops
    /\ stopCalls' = stopCalls + 1
    /\ IF stopped = "closed"
       THEN /\ panicked' = TRUE
            /\ UNCHANGED <<stopped, tcpStops, stopRet>>
       ELSE /\ stopped' = "closed"
            /\ tcpStops' = tcpStops + 1
            /\ stopRet' \in {NilErr, ErrTcpStop}
            /\ UNCHANGED panicked
    /\ UNCHANGED <<tcpCalls, callCount, lastUri, callRet, linkVars, metricVars>>

\* the URIs handed to links.call
Schemes == {"tcp", "socks", "tls", "udp"}
MetricQueries == { <<>>, << <<"3", "0", "0">> >> }
Uris ==
    [Scheme : Schemes \ {"socks"}, Host : {"h"}, Path : {<<>>}, User : {FALSE},
     ed25519 : Queries, metric : MetricQueries]
    \cup
    [Scheme : {"socks"}, Host : {"h"}, Path : {<<>>, <<"p", "q">>}, User : BOOLEAN,
     ed25519 : Queries, metric : MetricQueries]

NextApi == (\E u \in Uris : call(u, "")) \/ stop

SpecApi == Init /\ [][NextApi]_vars

\* ------------------------------------------------- the handshake's metric
\* lines 184-186 as they would be with the comparison turned round
EffectiveMetricFlipped(m, remote) == IF m > remote THEN remote ELSE m

\* lines 184-186: if metric < uint64(meta.metric) { metric = uint64(meta.metric) }
EffectiveMetric(m, remote) == IF m < remote THEN remote ELSE m

\* lines 150-151: meta.metric = intf.options.metric; metric := uint64(meta.metric)
MetricLocal ==
    /\ mpc = "start"
    /\ metric' = optMetric
    /\ mpc' = "local"
    /\ UNCHANGED <<optMetric, remoteMetric, handedMetric, linkVars, apiVars>>

\* lines 179-186: meta is replaced by the decoded remote metadata, then the comparison
MetricCompare ==
    /\ mpc = "local"
    /\ metric' = EffectiveMetric(metric, remoteMetric)
    /\ mpc' = "compared"
    /\ UNCHANGED <<optMetric, remoteMetric, handedMetric, linkVars, apiVars>>

\* line 247: HandleConn(key, conn, metric)
MetricHandOff ==
    /\ mpc = "compared"
    /\ handedMetric' = metric
    /\ mpc' = "handed"
    /\ UNCHANGED <<optMetric, remoteMetric, metric, linkVars, apiVars>>

\* one handshake for every pair of a local and a remote 8-bit metric
InitMetric ==
    /\ InitLinks /\ allowed = <<>>
    /\ InitApi
    /\ mpc = "start"
    /\ optMetric \in Uint8
    /\ remoteMetric \in Uint8
    /\ metric = 0
    /\ handedMetric = 0

NextMetric == MetricLocal \/ MetricCompare \/ MetricHandOff

SpecMetric == InitMetric /\ [][NextMetric]_vars

TypeOK ==
    /\ mutex \in Links \cup {NoLink}
    /\ \A k \in DOMAIN links : links[k] \in Links

\* ================================================================ properties
\* the links that are values of the registry map
Registered == { links[k] : k \in DOMAIN links }

\* the link has stored itself and has not yet run its deferred delete
Live(l) == pc[l] \in {"unlock", "registered", "handling", "deferLock", "deferDelete"}

\* the link's handler is past its registration step (it inserted, or returned a duplicate)
PastRegistration(l) ==
    pc[l] \in {"unlock", "registered", "handling", "deferLock", "deferDelete",
               "deferSignal", "deferClose", "done"}

SameKey(a, b) == intf[a].info = intf[b].info

\* C1: at most one link per LinkKey is registered, the registry maps a key to exactly
\* the link that registered under it, and at most one handler per LinkKey is inside
\* HandleConn at a time.
C1_OneLinkPerKey ==
    /\ \A a, b \in Links : a # b /\ Live(a) /\ Live(b) => ~SameKey(a, b)
    /\ \A a \in Links : Live(a) =>
          intf[a].info \in DOMAIN links /\ links[intf[a].info] = a
    /\ \A k \in DOMAIN links : intf[links[k]].info = k /\ Live(links[k])
    /\ \A a, b \in Links :
          a # b /\ pc[a] = "handling" /\ pc[b] = "handling" => ~SameKey(a, b)

\* C1 witness: one link is inside HandleConn while a second link with the same
\* LinkKey has finished as a duplicate of it.
C1_Witness ==
    \E a, b \in Links :
        /\ a # b /\ SameKey(a, b)
        /\ pc[a] = "handling" /\ pc[b] = "done" /\ ret[b].ch = a

\* C2 (as stated): of two handlers that waited for the registration lock together with
\* the same LinkKey, exactly one inserts itself and the other returns the closure
\* signal of the one that inserted.
C2_ExactlyOneInserts ==
    \A a, b \in Links :
        a # b /\ {a, b} \in raced /\ PastRegistration(a) /\ PastRegistration(b) =>
            /\ inserts[a] + inserts[b] = 1
            /\ inserts[b] = 0 => ret[b] = [ch |-> a, err |-> NilErr]

\* C2 (amended): two handlers that waited for the registration lock together with the
\* same LinkKey are never registered at the same time; one that did not insert itself
\* returned, with a nil error, the closure signal of a link that had inserted itself
\* under the same LinkKey, and it is not in the registry.
C2_RaceResolved ==
    \A a, b \in Links :
        a # b /\ {a, b} \in raced =>
            /\ ~(Live(a) /\ Live(b))
            /\ inserts[b] <= 1
            /\ PastRegistration(b) /\ inserts[b] = 0 =>
                  /\ ret[b].err = NilErr
                  /\ ret[b].ch \in Links \ {b}
                  /\ SameKey(ret[b].ch, b)
                  /\ inserts[ret[b].ch] = 1
                  /\ b \notin Registered

\* C2 witness: of two handlers that raced, one is registered and inside HandleConn and
\* the other has returned the first's closure signal.
C2_Witness ==
    \E a, b \in Links :
        /\ a # b /\ {a, b} \in raced
        /\ pc[a] = "handling" /\ inserts[b] = 0
        /\ pc[b] = "done" /\ ret[b] = [ch |-> a, err |-> NilErr]

\* C3: a handler whose lookup found a live link for its LinkKey makes no change to the
\* registry (the entry still maps to the link found, this handler stores and deletes
\* nothing), returns the found link's closure signal with a nil error, never calls
\* HandleConn, and its connection is closed when it is done.
C3_DuplicateLeavesRegistry ==
    \A l \in Links : oldIntf[l] # NoLink =>
        /\ inserts[l] = 0 /\ removes[l] = 0 /\ l \notin Registered
        /\ handleCalls[l] = 0
        /\ pc[l] \in {"duplicate", "deferClose", "done"}
        /\ pc[l] = "duplicate" =>
              intf[l].info \in DOMAIN links /\ links[intf[l].info] = oldIntf[l]
        /\ pc[l] \in {"deferClose", "done"} =>
              /\ ret[l] = [ch |-> oldIntf[l], err |-> NilErr]
              /\ intf[oldIntf[l]].closed # "nil"
        /\ pc[l] = "done" => connCloses[l] = 1

\* C3 witness: a duplicate handler is done while the link it found is still registered.
C3_Witness ==
    \E l \in Links :
        /\ oldIntf[l] # NoLink /\ pc[l] = "done"
        /\ oldIntf[l] \in Registered

\* C4: every step that removes or replaces a registry entry is the deferred delete of
\* the very link the entry maps to; no teardown removes another link's entry.
C4_DeregisterOwnEntryOnly ==
    [][\A k \in DOMAIN links :
          /\ k \in DOMAIN links' => links'[k] = links[k]
          /\ k \notin DOMAIN links' =>
                pc[links[k]] = "deferDelete" /\ pc'[links[k]] = "deferSignal"]_vars

\* C4 witness: a link has deleted its entry and a newer link is registered under the
\* same LinkKey.
C4_Witness ==
    \E a, b \in Links :
        /\ a # b /\ SameKey(a, b)
        /\ removes[a] = 1 /\ Live(b) /\ b \in Registered

\* C5: the closure signal is fired at most once, only by a link that registered and
\* whose HandleConn call has returned, never while the link is registered or active,
\* never for a link that did not register, and exactly once when such a handler is done.
C5_ClosureSignalOnce ==
    \A l \in Links :
        /\ fired[l] <= 1
        /\ fired[l] = 1 =>
              /\ inserts[l] = 1 /\ handleCalls[l] = 1
              /\ pc[l] \in {"deferClose", "done"}
              /\ intf[l].closed = "closed"
        /\ pc[l] \in {"unlock", "registered", "handling"} =>
              fired[l] = 0 /\ intf[l].closed = "open"
        /\ inserts[l] = 0 => fired[l] = 0 /\ intf[l].closed = "nil"
        /\ pc[l] = "done" /\ inserts[l] = 1 => fired[l] = 1

\* C5 witness: a registered link's handler is done and its signal has fired.
C5_Witness == \E l \in Links : pc[l] = "done" /\ inserts[l] = 1 /\ fired[l] = 1

HandshakeErrs ==
    {ErrSendTimeout, ErrSend, ErrRecvTimeout, ErrRecv, ErrDecode, ErrVersion, ErrPinned}

\* the handler has examined the frame it read
Examined(l) == metaBytes[l].read /\ pc[l] # "received"

\* the link's pinned set is configured and does not hold the remote's key
PinnedExcludes(l) ==
    ~intf[l].pinned.isNil /\ metaBytes[l].key \notin intf[l].pinned.keys

\* the handshake of l has to fail: an I/O step failed, or the frame read is
\* undecodable, of an incompatible version, or from a key the pinned set excludes
MustFail(l) ==
    \/ ret[l].err \in {ErrSendTimeout, ErrSend, ErrRecvTimeout, ErrRecv}
    \/ /\ Examined(l)
       /\ \/ ~metaBytes[l].wellFormed
          \/ ~metaBytes[l].compatible
          \/ PinnedExcludes(l)

\* C6: a handshake that fails at any step returns that error and no signal, never
\* stores or deletes anything in the registry, never reaches HandleConn, and its
\* connection is closed when the handler is done.
C6_FailedHandshakeNotRegistered ==
    \A l \in Links : (MustFail(l) \/ ret[l].err \in HandshakeErrs) =>
        /\ ret[l].err \in HandshakeErrs /\ ret[l].ch = NilChan
        /\ inserts[l] = 0 /\ removes[l] = 0 /\ l \notin Registered
        /\ handleCalls[l] = 0
        /\ pc[l] \in {"deferClose", "done"}
        /\ pc[l] = "done" => connCloses[l] = 1

\* C6 witness: a handler is done after a failed handshake while another link is
\* registered.
C6_Witness ==
    \E l \in Links :
        /\ pc[l] = "done" /\ ret[l].err = ErrVersion
        /\ Registered # {}

\* the handler left by a path other than a successful tunnel or a duplicate
NonSuccess(l) ==
    \/ ret[l].err \notin {NilErr, "none"}
    \/ ret[l].err = NilErr /\ inserts[l] = 0 /\ oldIntf[l] = NoLink

\* C7: on every non-success exit the connection's Close has been called exactly once
\* when the handler is done, and an entry this handler created has been removed
\* exactly once.
C7_ClosedExactlyOnce ==
    \A l \in Links : pc[l] = "done" /\ NonSuccess(l) =>
        /\ connCloses[l] = 1
        /\ inserts[l] = 1 => removes[l] = 1 /\ l \notin Registered

\* the identities the allow-list names
AllowListKeys == { CopyKey(DecodeString(allowed[i]).bytes) : i \in 1..Len(allowed) }

\* the version and pinned-key checks have passed for l
PassedChecks(l) ==
    /\ Examined(l)
    /\ metaBytes[l].wellFormed /\ metaBytes[l].compatible
    /\ ~PinnedExcludes(l)

ShouldReject(l) ==
    /\ Len(allowed) > 0
    /\ intf[l].incoming /\ ~intf[l].force
    /\ metaBytes[l].key \notin AllowListKeys

\* the handler returned no signal and no error without registering or finding a duplicate
SilentlyRejected(l) ==
    /\ pc[l] \in {"deferClose", "done"}
    /\ ret[l] = [ch |-> NilChan, err |-> NilErr]
    /\ inserts[l] = 0 /\ oldIntf[l] = NoLink

C9_PinnedMismatchIsError ==
    \A l \in Links :
        Examined(l) /\ metaBytes[l].wellFormed /\ PinnedExcludes(l) =>
            /\ ret[l].err \in {ErrVersion, ErrPinned}
            /\ metaBytes[l].compatible => ret[l].err = ErrPinned
            /\ inserts[l] = 0 /\ l \notin Registered /\ handleCalls[l] = 0

\* C9 witness: an incoming and an outgoing link have both ended with the pinned-key error.
C9_Witness ==
    \E a, b \in Links :
        /\ intf[a].incoming /\ ~intf[b].incoming
        /\ pc[a] = "done" /\ ret[a].err = ErrPinned
        /\ pc[b] = "done" /\ ret[b].err = ErrPinned

\* C10: a link whose pinned set holds no identities never fails with the pinned-key
\* mismatch.
C10_EmptyPinnedNeverFails ==
    \A l \in Links : intf[l].pinned.keys = {} => ret[l].err # ErrPinned

\* C11: for every pair of 8-bit metrics, the metric handed to HandleConn is the larger
\* of the locally configured metric and the metric the remote advertised.
C11_EffectiveMetricIsMax ==
    mpc = "handed" =>
        /\ handedMetric \in {optMetric, remoteMetric}
        /\ handedMetric >= optMetric
        /\ handedMetric >= remoteMetric

\* C11 witness: a handshake whose remote metric is the larger one has handed it over.
C11_Witness ==
    mpc = "handed" /\ optMetric = 3 /\ remoteMetric = MaxUint8 /\ handedMetric = MaxUint8

\* C12 (as stated): a second or later call of stop() completes without a crash and
\* leaves the stop signal closed.
C12_StopIdempotent ==
    stopCalls >= 2 => ~panicked /\ stopped = "closed"

\* C13: a call of links.call with a scheme other than tcp, socks or tls returns the
\* unknown-scheme error and makes no call of tcp.call; with one of the three it makes
\* exactly one call of tcp.call and returns no error.
C13_UnknownSchemeNoDial ==
    [][callCount' = callCount + 1 =>
          IF lastUri'.Scheme \in {"tcp", "socks", "tls"}
          THEN Len(tcpCalls') = Len(tcpCalls) + 1 /\ callRet' = NilErr
          ELSE tcpCalls' = tcpCalls /\ callRet' = ErrUnknownScheme]_vars

\* C13 witness: an unknown scheme was refused after a known one had dialled.
C13_Witness ==
    /\ callCount = 2 /\ Len(tcpCalls) = 1
    /\ lastUri.Scheme = "udp" /\ callRet = ErrUnknownScheme

\* the states in which a handler is between Lock and Unlock
InCriticalSection(l) == pc[l] \in {"lookup", "duplicate", "insert", "unlock", "deferDelete"}

\* C14: a handler holds the registry mutex exactly while it is between a Lock and the
\* matching Unlock; it never holds it where it sends, receives, is inside HandleConn or
\* closes its connection, so whoever holds the mutex can always take its next step.
C14_NoLockAcrossIO ==
    /\ mutex \in Links \cup {NoLink}
    /\ \A l \in Links : mutex = l <=> InCriticalSection(l)
    /\ \A l \in Links :
          pc[l] \in {"created", "sent", "received", "registered", "handling",
                     "deferClose"} => mutex # l

\* C14 witness: one handler is blocked inside HandleConn while another holds the mutex.
C14_Witness ==
    \E a, b \in Links : pc[a] = "handling" /\ mutex = b /\ pc[b] = "lookup"

\* HandleConn was called for l and has returned
TunnelReturned(l) == handleCalls[l] = 1 /\ pc[l] # "handling"

\* C15: once HandleConn has returned for a link, eventually the link is out of the
\* registry and its closure signal is fired.
C15_EventuallyDeregisteredAndFired ==
    \A l \in Links :
        TunnelReturned(l) ~>
            (fired[l] = 1 /\ intf[l].closed = "closed" /\ l \notin Registered)

\* C15 witness: a link's handler is done, the link is out of the registry, and a
\* duplicate caller holds its fired closure signal.
C15_Witness ==
    \E a, b \in Links :
        /\ a # b /\ ret[b].ch = a
        /\ pc[a] = "done" /\ fired[a] = 1 /\ a \notin Registered

\* C16: a handler whose metadata send or receive timed out returned that timeout error
\* and no signal, took no later step of the handshake (nothing read after a send
\* timeout, no key adopted, no lookup, no registration, no HandleConn), changed nothing
\* in the registry, and its connection is closed when it is done.
C16_TimeoutAborts ==
    \A l \in Links : ret[l].err \in {ErrSendTimeout, ErrRecvTimeout} =>
        /\ pc[l] \in {"deferClose", "done"}
        /\ ret[l].ch = NilChan
        /\ ret[l].err = ErrSendTimeout => ~metaBytes[l].read
        /\ intf[l].info.key = ZeroKey /\ intf[l].closed = "nil"
        /\ oldIntf[l] = NoLink
        /\ inserts[l] = 0 /\ removes[l] = 0 /\ l \notin Registered
        /\ handleCalls[l] = 0
        /\ pc[l] = "done" => connCloses[l] = 1

\* C16 witness: one handler is done after a send timeout and another after a receive
\* timeout.
C16_Witness ==
    \E a, b \in Links :
        /\ pc[a] = "done" /\ ret[a].err = ErrSendTimeout
        /\ pc[b] = "done" /\ ret[b].err = ErrRecvTimeout

\* C17: the first failing check decides: an incompatible version gives the version
\* error; otherwise a pinned-key mismatch gives the pinned-key error even when the
\* allow-list would reject the link too; otherwise an allow-list rejection is silent
\* and is never a duplicate; only a link that passed all three reaches the lookup.
C17_CheckOrder ==
    \A l \in Links : Examined(l) /\ metaBytes[l].wellFormed =>
        /\ ~metaBytes[l].compatible => ret[l].err = ErrVersion
        /\ metaBytes[l].compatible /\ PinnedExcludes(l) =>
              ret[l].err = ErrPinned /\ connCloses[l] <= 1
        /\ metaBytes[l].compatible /\ ~PinnedExcludes(l) /\ ShouldReject(l) =>
              /\ ret[l] = [ch |-> NilChan, err |-> NilErr]
              /\ oldIntf[l] = NoLink /\ inserts[l] = 0
        /\ (oldIntf[l] # NoLink \/ inserts[l] = 1) =>
              metaBytes[l].compatible /\ ~PinnedExcludes(l) /\ ~ShouldReject(l)

\* C17 witness: an incoming, not forced link that fails both the pinned-key check and
\* the allow-list is done with the pinned-key error.
C17_Witness ==
    \E l \in Links :
        /\ intf[l].incoming /\ ~intf[l].force
        /\ Examined(l) /\ metaBytes[l].compatible
        /\ PinnedExcludes(l) /\ ShouldReject(l)
        /\ pc[l] = "done" /\ ret[l].err = ErrPinned

\* C18: HandleConn is called at most once per link, only by a link that inserted itself
\* and while its entry is in the registry; every link that inserted itself calls it;
\* after it returned the handler's result is no signal and the error HandleConn returned.
C18_TunnelOncePerRegisteredLink ==
    \A l \in Links :
        /\ handleCalls[l] <= 1
        /\ handleCalls[l] = 1 => inserts[l] = 1
        /\ inserts[l] = 1 /\ pc[l] \notin {"unlock", "registered"} => handleCalls[l] = 1
        /\ pc[l] = "handling" =>
              /\ intf[l].info \in DOMAIN links /\ links[intf[l].info] = l
              /\ handleErr[l] = "none"
        /\ TunnelReturned(l) =>
              /\ handleErr[l] \in {NilErr, ErrTunnel}
              /\ ret[l] = [ch |-> NilChan, err |-> handleErr[l]]

\* C18 witness: a handler is done after HandleConn returned an error, and returned it.
C18_Witness ==
    \E l \in Links :
        pc[l] = "done" /\ handleErr[l] = ErrTunnel /\ ret[l].err = ErrTunnel

\* C19: whenever a link's closure signal has fired, the link's entry has been removed:
\* the registry does not map the link's LinkKey to that link.
C19_RemovedBeforeFired ==
    \A l \in Links : (fired[l] >= 1 \/ intf[l].closed = "closed") =>
        /\ removes[l] = 1
        /\ l \notin Registered
        /\ intf[l].info \in DOMAIN links => links[intf[l].info] # l

\* C19 witness: a link's signal has fired and a newer link with the same LinkKey is
\* inside HandleConn.
C19_Witness ==
    \E a, b \in Links :
        /\ a # b /\ SameKey(a, b)
        /\ fired[a] = 1 /\ pc[b] = "handling"

\* C20: every link in the registry has a closed channel that was made, and a duplicate
\* handler's lookup result is a link with a made channel that had inserted itself under
\* the same LinkKey and is registered while the duplicate handler holds the lock; the
\* signal the duplicate handler returns is that link's and is not nil.
C20_RegisteredSignalNotNil ==
    /\ \A k \in DOMAIN links : intf[links[k]].closed # "nil"
    /\ \A l \in Links : inserts[l] = 1 => intf[l].closed # "nil"
    /\ \A l \in Links : oldIntf[l] # NoLink =>
          /\ oldIntf[l] # l /\ SameKey(l, oldIntf[l])
          /\ inserts[oldIntf[l]] = 1
          /\ intf[oldIntf[l]].closed # "nil"
          /\ pc[l] = "duplicate" => oldIntf[l] \in Registered
          /\ pc[l] \in {"deferClose", "done"} =>
                ret[l].ch # NilChan /\ ret[l].ch = oldIntf[l]

\* C20 witness: a duplicate handler has returned the signal of the link it found, and
\* that link has since fired it.
C20_Witness ==
    \E l \in Links :
        /\ oldIntf[l] # NoLink /\ pc[l] = "deferClose"
        /\ ret[l].ch = oldIntf[l] /\ intf[oldIntf[l]].closed = "closed"

====
